---- MODULE Spec2Model ----
(***************************************************************************)
(* Model of the png-me chunk codec: src/src/chunk_type.rs (ChunkType) and  *)
(* src/src/chunk.rs (Chunk).                                               *)
(*                                                                         *)
(* Numbers.  A u32 does not fit TLC's 32-bit signed integers, so a u32 and *)
(* a usize are records [hi, lo] standing for hi * 2^16 + lo with           *)
(* 0 <= lo < 2^16.  A u32 has hi < 2^16; a usize (64-bit target) may have  *)
(* a larger hi.                                                            *)
(*                                                                         *)
(* Byte vectors.  A Vec<u8> / &[u8] is a sequence of pieces.  A piece is   *)
(* either a string of bytes written out, or a run of n bytes 0x00 with n a *)
(* usize of 2^16 or more; runs are how a payload of 2^32 bytes or more is  *)
(* written down.  An ordinary short vector is one piece of bytes.          *)
(***************************************************************************)
EXTENDS Integers, Sequences, FiniteSets

\* ------------------------------------------------------------------ bounds
\* longest short payload, in bytes
MaxDataLen == 2
\* longest string given to from_str, in UTF-8 bytes
MaxStrLen == 5
\* most bytes appended after a chunk's bytes
MaxExtra == 1
\* longest arbitrary buffer decoded, and longest kept prefix of a chunk's bytes
MaxBufLen == 13
\* the largest payloads have 2^32 .. 2^32 + MaxBig + 1 bytes
MaxBig == 1
\* most bytes cut off the end of a chunk's bytes
MaxCut == 4
\* a vector's run of zero bytes is shorter than 2^(MaxPow + 1)
MaxPow == 46

\* --------------------------------------------------------------- constants
U_32_LEN == 4
TYPE_LEN == 4

\* ------------------------------------------------------------ u32 / usize
Half == 2 ^ 16

W(h, l) == [hi |-> h, lo |-> l]

\* a small natural number as a usize
USize(n) == W(n \div Half, n % Half)

UAdd(a, b) ==
  LET s == a.lo + b.lo IN W(a.hi + b.hi + (s \div Half), s % Half)

ULe(a, b) == a.hi < b.hi \/ (a.hi = b.hi /\ a.lo <= b.lo)

ULt(a, b) == a.hi < b.hi \/ (a.hi = b.hi /\ a.lo < b.lo)

\* a - b for a >= b
USub(a, b) ==
  IF a.lo >= b.lo THEN W(a.hi - b.hi, a.lo - b.lo)
  ELSE W(a.hi - b.hi - 1, a.lo + Half - b.lo)

\* a usize below 2^31 as a number: an index into a written-out sequence
UInt(u) == u.hi * Half + u.lo

\* `x as u32`: keeps the low 32 bits
AsU32(u) == W(u.hi % Half, u.lo)

\* `x as usize` of a u32 (0-extension on a 64-bit target)
AsUsize(w) == W(w.hi, w.lo)

U32FromBeBytes(b) == W(b[1] * 256 + b[2], b[3] * 256 + b[4])

U32FromLeBytes(b) == W(b[4] * 256 + b[3], b[2] * 256 + b[1])

U32ToBeBytes(w) == << w.hi \div 256, w.hi % 256, w.lo \div 256, w.lo % 256 >>

U32ToLeBytes(w) == << w.lo % 256, w.lo \div 256, w.hi % 256, w.hi \div 256 >>

\* exclusive or of two 4-bit numbers, bit by bit
RECURSIVE NibbleXor(_, _, _)
NibbleXor(a, b, n) ==
  IF n = 0 THEN 0
  ELSE (((a % 2) + (b % 2)) % 2) + 2 * NibbleXor(a \div 2, b \div 2, n - 1)

XorTable == [a \in 0 .. 15 |-> [b \in 0 .. 15 |-> NibbleXor(a, b, 4)]]

\* a ^ b on 16-bit numbers, four bits at a time
BitXor(a, b) ==
  XorTable[a % 16][b % 16]
  + 16 * XorTable[(a \div 16) % 16][(b \div 16) % 16]
  + 256 * XorTable[(a \div 256) % 16][(b \div 256) % 16]
  + 4096 * XorTable[a \div 4096][b \div 4096]

\* a ^ b on u32
WXor(a, b) == W(BitXor(a.hi, b.hi), BitXor(a.lo, b.lo))

\* ------------------------------------------------------------------ CRC-32
\* CRC_32_ISO_HDLC: poly 0x04C11DB7 reflected = 0xEDB88320, init and xorout
\* 0xFFFFFFFF, refin = refout = true.
CrcPoly == W(60856, 33568)
AllOnes == W(65535, 65535)

\* c >> 1
Shr1(c) == W(c.hi \div 2, (c.lo \div 2) + (c.hi % 2) * 32768)

\* c >> 8
Shr8(c) == W(c.hi \div 256, (c.lo \div 256) + (c.hi % 256) * 256)

\* one step of the reflected register: shift out the low bit, and fold the
\* polynomial in when that bit was set
CrcShift(c) == IF c.lo % 2 = 1 THEN WXor(Shr1(c), CrcPoly) ELSE Shr1(c)

\* n steps.  (Every loop of this section tests its running value before it
\* recurses, so that the value is computed at each step.)
RECURSIVE CrcShifts(_, _)
CrcShifts(c, n) ==
  IF n = 0 THEN c
  ELSE IF c.lo % 2 = 1 THEN CrcShifts(WXor(Shr1(c), CrcPoly), n - 1)
  ELSE CrcShifts(Shr1(c), n - 1)

\* the 256-entry table Crc::new builds: entry i is i after eight steps
CrcTable == [i \in 0 .. 255 |-> CrcShifts(W(0, i), 8)]

\* the register after one more byte b
CrcByte(c, b) == WXor(CrcTable[BitXor(c.lo % 256, b)], Shr8(c))

\* the register after the bytes s[i] .. s[j], taken in order: the first half
\* of the range, then the second.  The register after the first half is
\* looked at before the second half is entered, which keeps the nesting of
\* the evaluation logarithmic in the number of bytes.
RECURSIVE CrcLoop(_, _, _, _)
CrcLoop(c, s, i, j) ==
  IF i > j THEN c
  ELSE IF i = j THEN CrcByte(c, s[i])
  ELSE LET m == (i + j) \div 2
           left == CrcLoop(c, s, i, m)
       IN IF left.lo >= 0 THEN CrcLoop(left, s, m + 1, j) ELSE left

\* the register after the bytes of s
CrcSeq(c, s) == CrcLoop(c, s, 1, Len(s))

\* bit i (0 .. 31) of a u32
BitOf(a, i) ==
  IF i >= 16 THEN (a.hi \div (2 ^ (i - 16))) % 2 ELSE (a.lo \div (2 ^ i)) % 2

\* product of two register values as polynomials modulo the CRC polynomial
\* (reflected: bit 31 is x^0, and CrcShift multiplies by x)
RECURSIVE PolyMulLoop(_, _)
PolyMulLoop(a, st) ==
  IF st.i < 0 THEN st.acc
  ELSE PolyMulLoop(a, [i |-> st.i - 1,
                       b |-> CrcShift(st.b),
                       acc |-> IF BitOf(a, st.i) = 1 THEN WXor(st.acc, st.b)
                               ELSE st.acc])

PolyMul(a, b) == PolyMulLoop(a, [i |-> 31, b |-> b, acc |-> W(0, 0)])

\* XPowTable[k + 1] = x^(8 * 2^k) mod the polynomial: what 2^k bytes 0x00 do
\* to the register.  x^8 is the register value 0x00800000.

RECURSIVE XPowBuild(_)
XPowBuild(t) ==
  IF Len(t) = MaxPow + 1 THEN t
  ELSE XPowBuild(Append(t, PolyMul(t[Len(t)], t[Len(t)])))

XPowTable == XPowBuild(<< W(128, 0) >>)

\* the register after n bytes 0x00 (n a usize): one product per set bit of n
RECURSIVE CrcZerosLoop(_)
CrcZerosLoop(st) ==
  IF st.n.hi = 0 /\ st.n.lo = 0 THEN st.c
  ELSE CrcZerosLoop([c |-> IF st.n.lo % 2 = 1
                           THEN PolyMul(XPowTable[st.k + 1], st.c) ELSE st.c,
                     n |-> Shr1(st.n),
                     k |-> st.k + 1])

CrcZeros(c, n) == CrcZerosLoop([c |-> c, n |-> n, k |-> 0])

\* ------------------------------------------------------------ byte vectors
NoRun == W(0, 0)

Zeros(n) == [i \in 1 .. n |-> 0]

\* number of 0x00 bytes at the end / at the start of a sequence
TrailingZeros(s) ==
  CHOOSE k \in 0 .. Len(s) :
    /\ (k = Len(s) \/ s[Len(s) - k] # 0)
    /\ \A i \in (Len(s) - k + 1) .. Len(s) : s[i] = 0

LeadingZeros(s) ==
  CHOOSE k \in 0 .. Len(s) :
    /\ (k = Len(s) \/ s[k + 1] # 0)
    /\ \A i \in 1 .. k : s[i] = 0

\* the two kinds of piece: bytes written out, and a run of n bytes 0x00
Bytes(s) == [run |-> NoRun, bytes |-> s]

Run(n) == [run |-> n, bytes |-> <<>>]

IsRun(p) == p.run # NoRun

\* where the runs of 2^16 or more 0x00 bytes of s start
RunStarts(s) ==
  { i \in 1 .. (Len(s) - Half + 1) :
      /\ (i = 1 \/ s[i - 1] # 0)
      /\ \A j \in i .. (i + Half - 1) : s[j] = 0 }

\* the vector of the bytes s.  Every byte string is written in one way only,
\* so that equal vectors are equal values: each largest stretch of 2^16 or
\* more 0x00 bytes is a run, everything between two runs is one piece of
\* bytes, and no piece is empty.
RECURSIVE Vec(_)
Vec(s) ==
  IF s = <<>> THEN <<>>
  ELSE IF Len(s) < Half \/ RunStarts(s) = {} THEN <<Bytes(s)>>
  ELSE LET st == RunStarts(s)
           i == CHOOSE x \in st : \A y \in st : x <= y
           rest == SubSeq(s, i, Len(s))
           n == LeadingZeros(rest)
       IN (IF i = 1 THEN <<>> ELSE <<Bytes(SubSeq(s, 1, i - 1))>>)
          \o <<Run(USize(n))>>
          \o Vec(SubSeq(rest, n + 1, Len(rest)))

\* vec![0u8; n]
VZeros(n) ==
  IF n = NoRun THEN <<>>
  ELSE IF n.hi = 0 THEN <<Bytes(Zeros(n.lo))>>
  ELSE <<Run(n)>>

\* the bytes of a vector that holds no run
Written(v) == IF v = <<>> THEN <<>> ELSE Head(v).bytes

\* number of bytes of a piece
PLen(p) == IF IsRun(p) THEN p.run ELSE USize(Len(p.bytes))

\* v.len()
RECURSIVE VLen(_)
VLen(v) == IF v = <<>> THEN USize(0) ELSE UAdd(PLen(Head(v)), VLen(Tail(v)))

\* piece a followed by piece b: a run takes in the 0x00 bytes next to it,
\* and two pieces of bytes become one, in which a new run may appear
Glue(a, b) ==
  IF IsRun(a) /\ IsRun(b) THEN <<Run(UAdd(a.run, b.run))>>
  ELSE IF IsRun(b)
  THEN LET hz == TrailingZeros(a.bytes)
           k == Len(a.bytes) - hz
       IN (IF k = 0 THEN <<>> ELSE <<Bytes(SubSeq(a.bytes, 1, k))>>)
          \o <<Run(UAdd(b.run, USize(hz)))>>
  ELSE IF IsRun(a)
  THEN LET tz == LeadingZeros(b.bytes)
       IN <<Run(UAdd(a.run, USize(tz)))>>
          \o (IF tz = Len(b.bytes) THEN <<>>
              ELSE <<Bytes(SubSeq(b.bytes, tz + 1, Len(b.bytes)))>>)
  ELSE Vec(a.bytes \o b.bytes)

\* u followed by v
VCat(u, v) ==
  IF u = <<>> THEN v
  ELSE IF v = <<>> THEN u
  ELSE SubSeq(u, 1, Len(u) - 1) \o Glue(u[Len(u)], Head(v)) \o Tail(v)

\* the first k bytes of v, k <= v.len()
RECURSIVE VTake(_, _)
VTake(v, k) ==
  IF v = <<>> \/ k = USize(0) THEN <<>>
  ELSE LET p == Head(v)
       IN IF ULe(PLen(p), k)
          THEN VCat(<<p>>, VTake(Tail(v), USub(k, PLen(p))))
          ELSE IF IsRun(p) THEN VZeros(k)
          ELSE Vec(SubSeq(p.bytes, 1, UInt(k)))

\* v without its first a bytes, a <= v.len()
RECURSIVE VDrop(_, _)
VDrop(v, a) ==
  IF v = <<>> \/ a = USize(0) THEN v
  ELSE LET p == Head(v)
       IN IF ULe(PLen(p), a) THEN VDrop(Tail(v), USub(a, PLen(p)))
          ELSE IF IsRun(p) THEN VCat(VZeros(USub(p.run, a)), Tail(v))
          ELSE VCat(Vec(SubSeq(p.bytes, UInt(a) + 1, Len(p.bytes))), Tail(v))

\* the crc register after the bytes of v
RECURSIVE CrcPieces(_, _)
CrcPieces(c, v) ==
  IF v = <<>> THEN c
  ELSE CrcPieces(IF IsRun(Head(v)) THEN CrcZeros(c, Head(v).run)
                 ELSE CrcSeq(c, Head(v).bytes),
                 Tail(v))

\* crc.checksum(bytes) over a byte vector
Checksum(v) == WXor(CrcPieces(AllOnes, v), AllOnes)

\* &v[a..b]: the slice, or a panic when the range is not inside v
Slice(v, a, b) ==
  IF ULe(a, b) /\ ULe(b, VLen(v))
  THEN [kind |-> "Some", v |-> VTake(VDrop(v, a), USub(b, a))]
  ELSE [kind |-> "Panic"]

\* --------------------------------------------------------------- ChunkType
None == [kind |-> "None"]
Ok(v) == [kind |-> "Ok", v |-> v]
Err(msg) == [kind |-> "Err", msg |-> msg]
Panic == [kind |-> "Panic"]

\* bitwise or of two naturals
RECURSIVE BitOr(_, _)
BitOr(a, b) ==
  IF a = 0 THEN b
  ELSE IF b = 0 THEN a
  ELSE (IF (a % 2) + (b % 2) > 0 THEN 1 ELSE 0) + 2 * BitOr(a \div 2, b \div 2)

\* result | (byte << (index * 8)) on a u32
ShlOr(result, byte, index) ==
  IF index * 8 < 16
  THEN W(result.hi, BitOr(result.lo, (byte * (2 ^ (index * 8))) % Half))
  ELSE W(BitOr(result.hi, (byte * (2 ^ (index * 8 - 16))) % Half), result.lo)

ChunkType_new(value) == [chunk_type |-> value]

\* the packing loop of try_from and from_str: index counts from 0
RECURSIVE PackLoop(_, _)
PackLoop(value, st) ==
  IF st.index = Len(value) THEN st.result
  ELSE PackLoop(value, [index |-> st.index + 1,
                        result |-> ShlOr(st.result, value[st.index + 1], st.index)])

\* impl TryFrom<[u8; 4]> for ChunkType
ChunkType_try_from(value) ==
  IF Len(value) # TYPE_LEN
  THEN Err("incorrect number of bytes in from_str parameter")
  ELSE Ok(ChunkType_new(PackLoop(value, [index |-> 0, result |-> W(0, 0)])))

\* faulty variant: digits pass too
is_ascii_alphanumeric(byte) ==
  byte \in 48 .. 57 \/ byte \in 65 .. 90 \/ byte \in 97 .. 122

\* u8::is_ascii_alphabetic
is_ascii_alphabetic(byte) == byte \in 65 .. 90 \/ byte \in 97 .. 122

\* impl FromStr for ChunkType; s is the string's UTF-8 bytes
ChunkType_from_str(s) ==
  IF Len(s) # TYPE_LEN
  THEN Err("incorrect number of bytes in from_str parameter")
  ELSE IF \E i \in 1 .. Len(s) : ~ is_ascii_alphabetic(s[i])
  THEN Err("non-alphabetic character")
  ELSE Ok(ChunkType_new(PackLoop(s, [index |-> 0, result |-> W(0, 0)])))

\* faulty variant: the bytes come out in the other order: to_be_bytes
ChunkType_bytes_be(t) == U32ToBeBytes(t.chunk_type)

\* ChunkType::bytes
ChunkType_bytes(t) == U32ToLeBytes(t.chunk_type)

\* faulty variant: the shift is off by one: (byte >> 6) & 0x0001
Bit6(byte) == (byte \div 64) % 2

\* (byte >> 5) & 0x0001
Bit5(byte) == (byte \div 32) % 2

is_critical(t) == Bit5(ChunkType_bytes(t)[1]) = 0

is_public(t) == Bit5(ChunkType_bytes(t)[2]) = 0

is_reserved_bit_valid(t) == Bit5(ChunkType_bytes(t)[3]) = 0

is_safe_to_copy(t) == Bit5(ChunkType_bytes(t)[4]) = 1

is_valid(t) == is_reserved_bit_valid(t)

\* ------------------------------------------------------------------- Chunk
\* faulty variant: the checksum is taken over the data only
Chunk_new_crc_of_data(chunk_type, data) ==
  [length |-> AsU32(VLen(data)),
   chunk_type |-> chunk_type,
   chunk_data |-> data,
   crc |-> Checksum(data)]

\* Chunk::new
Chunk_new(chunk_type, data) ==
  [length |-> AsU32(VLen(data)),
   chunk_type |-> chunk_type,
   chunk_data |-> data,
   crc |-> Checksum(VCat(Vec(ChunkType_bytes(chunk_type)), data))]

\* Chunk::as_bytes
Chunk_as_bytes(c) ==
  VCat(VCat(VCat(Vec(U32ToBeBytes(c.length)), Vec(ChunkType_bytes(c.chunk_type))),
            c.chunk_data),
       Vec(U32ToBeBytes(c.crc)))

\* faulty variant: the crc is read from the last four bytes of the buffer
CrcField_trailing(value, end_data) ==
  Slice(value,
        IF ULe(USize(U_32_LEN), VLen(value))
        THEN USub(VLen(value), USize(U_32_LEN)) ELSE VLen(value),
        IF ULe(USize(U_32_LEN), VLen(value))
        THEN VLen(value) ELSE UAdd(VLen(value), USize(U_32_LEN)))

\* the crc field: &value[start_index..end_index] with start_index the end of
\* the data and end_index = start_index + U_32_LEN
CrcField(value, end_data) ==
  Slice(value, end_data, UAdd(end_data, USize(U_32_LEN)))

\* faulty variant: the checksums are not compared
is_valid_chunk_length_only(length, crc, chunk) == length = chunk.length

\* length == chunk.length() && crc == chunk.crc()
is_valid_chunk(length, crc, chunk) == length = chunk.length /\ crc = chunk.crc

\* impl TryFrom<&[u8]> for Chunk
Chunk_try_from(value) ==
  LET f1 == Slice(value, USize(0), USize(U_32_LEN))
  IN IF f1.kind = "Panic" THEN Panic ELSE
  LET length == U32FromBeBytes(Written(f1.v))
      f2 == Slice(value, USize(U_32_LEN), USize(U_32_LEN + U_32_LEN))
  IN IF f2.kind = "Panic" THEN Panic ELSE
  LET chunk_type == U32FromLeBytes(Written(f2.v))
      start_data == USize(U_32_LEN + U_32_LEN)
      end_data == UAdd(start_data, AsUsize(length))
      f3 == Slice(value, start_data, end_data)
  IN IF f3.kind = "Panic" THEN Panic ELSE
  LET chunk_data == f3.v
      f4 == CrcField(value, end_data)
  IN IF f4.kind = "Panic" THEN Panic ELSE
  LET crc == U32FromBeBytes(Written(f4.v))
      chunk == Chunk_new(ChunkType_new(chunk_type), chunk_data)
  IN IF is_valid_chunk(length, crc, chunk) THEN Ok(chunk)
     ELSE Err("Given invalid byte array")

\* ------------------------------------------------------------------ inputs
\* 'R' (a letter, bit 0x20 clear) and '1' (not a letter, bit 0x20 set)
TagBytes == {49, 82}

\* the tags of the repository's tests: RuSt ruSt RUSt Rust RuST Ru1t
RuSt == << 82, 117, 83, 116 >>
TestTags ==
  { RuSt, << 114, 117, 83, 116 >>, << 82, 85, 83, 116 >>, << 82, 117, 115, 116 >>,
    << 82, 117, 83, 84 >>, << 82, 117, 49, 116 >> }

TagArrays == [1 .. TYPE_LEN -> TagBytes] \cup TestTags \cup {<< 0, 0, 0, 0 >>}

\* the arrays a ChunkType is compared with: the tests' tags, and RuSt with its
\* bytes in other orders
OtherArrays ==
  TestTags \cup { << 117, 82, 83, 116 >>, << 116, 83, 117, 82 >>, << 0, 0, 0, 0 >> }

\* the characters strings are made of, as UTF-8: '1', 'R', 'u', and the
\* two-byte U+00E9
StrUnits == { << 49 >>, << 82 >>, << 117 >>, << 195, 169 >> }

RECURSIVE StrsUpTo(_)
StrsUpTo(n) ==
  IF n = 0 THEN { <<>> }
  ELSE LET shorter == StrsUpTo(n - 1)
       IN shorter \cup { s \o u : s \in shorter, u \in StrUnits }

Strings == { s \in StrsUpTo(MaxStrLen) : Len(s) <= MaxStrLen } \cup TestTags

\* "This is where your secret message will be!"
SecretMessage ==
  << 84, 104, 105, 115, 32, 105, 115, 32, 119, 104, 101, 114, 101, 32, 121,
     111, 117, 114, 32, 115, 101, 99, 114, 101, 116, 32, 109, 101, 115, 115,
     97, 103, 101, 32, 119, 105, 108, 108, 32, 98, 101, 33 >>

DataBytes == {0, 255}

RECURSIVE SeqsUpTo(_, _)
SeqsUpTo(S, n) ==
  IF n = 0 THEN { <<>> }
  ELSE LET shorter == SeqsUpTo(S, n - 1)
       IN shorter \cup { Append(q, e) : q \in shorter, e \in S }

SmallData == SeqsUpTo(DataBytes, MaxDataLen)

\* payloads of 2^32 bytes and a little more: zero bytes after a short start
BigData ==
  { VCat(Vec(h), VZeros(W(Half, j))) : h \in SeqsUpTo(DataBytes, 1), j \in 0 .. MaxBig }

Payloads == { Vec(d) : d \in SmallData \cup {SecretMessage} } \cup BigData

RawBytes == {0, 1}

RawBuffers == SeqsUpTo(RawBytes, MaxBufLen)

Extras == SeqsUpTo(DataBytes, MaxExtra) \ { <<>> }

\* ------------------------------------------------------------------- state
VARIABLES
  input,     \* what the current ChunkType was built from: an array or a string
  ct,        \* the result of the last ChunkType construction, until it is moved
  flags,     \* the answers of the five flag queries on ct
  eq,        \* the last comparison of ct with another ChunkType
  chunk,     \* the Chunk built by Chunk::new
  bytes,     \* chunk.as_bytes()
  value,     \* the buffer handed to Chunk::try_from
  decoded,   \* the result of Chunk::try_from(value)
  last       \* the operation that ran last

vars == << input, ct, flags, eq, chunk, bytes, value, decoded, last >>

Some(v) == [kind |-> "Some", v |-> v]

Init ==
  /\ input = None
  /\ ct = None
  /\ flags = None
  /\ eq = None
  /\ chunk = None
  /\ bytes = None
  /\ value = None
  /\ decoded = None
  /\ last = "start"

\* ChunkType::try_from(b)
TypeTryFrom ==
  /\ ct = None /\ chunk = None /\ value = None
  /\ \E b \in TagArrays :
       /\ input' = [from |-> "bytes", s |-> b]
       /\ ct' = ChunkType_try_from(b)
  /\ flags' = None
  /\ eq' = None
  /\ last' = "try_from"
  /\ UNCHANGED << chunk, bytes, value, decoded >>

\* ChunkType::from_str(s)
TypeFromStr ==
  /\ ct = None /\ chunk = None /\ value = None
  /\ \E s \in Strings :
       /\ input' = [from |-> "str", s |-> s]
       /\ ct' = ChunkType_from_str(s)
  /\ flags' = None
  /\ eq' = None
  /\ last' = "from_str"
  /\ UNCHANGED << chunk, bytes, value, decoded >>

\* the five flag queries on the current ChunkType
QueryFlags ==
  /\ ct.kind = "Ok"
  /\ flags = None
  /\ flags' = [is_valid |-> is_valid(ct.v),
               is_critical |-> is_critical(ct.v),
               is_public |-> is_public(ct.v),
               is_reserved_bit_valid |-> is_reserved_bit_valid(ct.v),
               is_safe_to_copy |-> is_safe_to_copy(ct.v)]
  /\ last' = "flags"
  /\ UNCHANGED << input, ct, eq, chunk, bytes, value, decoded >>

\* ct == ChunkType::try_from(b).unwrap()  (derived PartialEq on the u32)
TypeEq ==
  /\ ct.kind = "Ok"
  /\ eq = None
  /\ \E b \in OtherArrays :
       eq' = [other |-> b, equal |-> (ct.v = ChunkType_try_from(b).v)]
  /\ last' = "eq"
  /\ UNCHANGED << input, ct, flags, chunk, bytes, value, decoded >>

\* Chunk::new(ct, data): the ChunkType is moved into the chunk
NewChunk ==
  /\ ct.kind = "Ok"
  /\ chunk = None
  /\ \E data \in Payloads : chunk' = Some(Chunk_new(ct.v, data))
  /\ input' = None
  /\ ct' = None
  /\ flags' = None
  /\ eq' = None
  /\ last' = "new"
  /\ UNCHANGED << bytes, value, decoded >>

\* chunk.as_bytes()
AsBytes ==
  /\ chunk # None
  /\ bytes = None
  /\ bytes' = Some(Chunk_as_bytes(chunk.v))
  /\ last' = "as_bytes"
  /\ UNCHANGED << input, ct, flags, eq, chunk, value, decoded >>

\* Chunk::try_from(buf), once per chunk or buffer
Decode(buf, how) ==
  /\ value' = Some(buf)
  /\ decoded' = Chunk_try_from(buf)
  /\ last' = how
  /\ UNCHANGED << input, ct, flags, eq, chunk, bytes >>

\* the chunk's own bytes
DecodeBytes ==
  /\ bytes # None /\ decoded = None
  /\ Decode(bytes.v, "decode")

\* the byte string b with bit i (0 .. 7) of its byte at position k inverted
FlipBit(b, k, i) ==
  [b EXCEPT ![k] = IF (b[k] \div (2 ^ i)) % 2 = 1 THEN b[k] - 2 ^ i ELSE b[k] + 2 ^ i]

\* the chunk's bytes with one bit of the checksum field (the last four bytes)
\* inverted
DecodeFlipped ==
  /\ bytes # None /\ decoded = None
  /\ \E k \in 1 .. U_32_LEN, i \in 0 .. 7 :
       LET n == VLen(bytes.v)
           front == VTake(bytes.v, USub(n, USize(U_32_LEN)))
           field == Written(VDrop(bytes.v, USub(n, USize(U_32_LEN))))
       IN Decode(VCat(front, Vec(FlipBit(field, k, i))), "decode_flipped")

\* the first k bytes of the chunk's bytes only
DecodeTruncated ==
  /\ bytes # None /\ decoded = None
  /\ \E k \in 0 .. MaxBufLen :
       /\ ULt(USize(k), VLen(bytes.v))
       /\ Decode(VTake(bytes.v, USize(k)), "decode_truncated")

\* the chunk's bytes without their last j bytes
DecodeCut ==
  /\ bytes # None /\ decoded = None
  /\ \E j \in 1 .. MaxCut :
       Decode(VTake(bytes.v, USub(VLen(bytes.v), USize(j))), "decode_cut")

\* the chunk's bytes followed by other bytes
DecodeExtended ==
  /\ bytes # None /\ decoded = None
  /\ \E extra \in Extras : Decode(VCat(bytes.v, Vec(extra)), "decode_extended")

\* any short buffer
DecodeRaw ==
  /\ ct = None /\ chunk = None /\ decoded = None
  /\ \E b \in RawBuffers : Decode(Vec(b), "decode_raw")

\* the values go out of scope
Drop ==
  /\ last # "start"
  /\ input' = None
  /\ ct' = None
  /\ flags' = None
  /\ eq' = None
  /\ chunk' = None
  /\ bytes' = None
  /\ value' = None
  /\ decoded' = None
  /\ last' = "start"

Next ==
  \/ TypeTryFrom
  \/ TypeFromStr
  \/ QueryFlags
  \/ TypeEq
  \/ NewChunk
  \/ AsBytes
  \/ DecodeBytes
  \/ DecodeFlipped
  \/ DecodeTruncated
  \/ DecodeCut
  \/ DecodeExtended
  \/ DecodeRaw
  \/ Drop

Spec == Init /\ [][Next]_vars

\* ------------------------------------------------------------ the claims
\* the claims' own reading of a buffer: sizes, the big-endian value of four
\* bytes, bit 0x20 of a byte, the letters
HeaderAndCrc == USize(12)

BeValue(b) == W(b[1] * 256 + b[2], b[3] * 256 + b[4])

\* the length declared in the first four bytes of a buffer of 4 bytes or more
Declared(v) == BeValue(Written(VTake(v, USize(4))))

\* the buffer is shorter than 12 bytes, or than 12 + its declared length
Truncated(v) ==
  \/ ULt(VLen(v), HeaderAndCrc)
  \/ ULt(VLen(v), UAdd(HeaderAndCrc, Declared(v)))

\* the bytes [a, b) of a buffer that holds them
Part(v, a, b) == VTake(VDrop(v, a), USub(b, a))

TagOf(v) == Written(Part(v, USize(4), USize(8)))

PayloadOf(v) == Part(v, USize(8), UAdd(USize(8), Declared(v)))

StoredCrcOf(v) ==
  BeValue(Written(Part(v, UAdd(USize(8), Declared(v)), UAdd(USize(12), Declared(v)))))

Bit0x20(byte) == (byte \div 32) % 2 = 1

Letter(byte) == (65 <= byte /\ byte <= 90) \/ (97 <= byte /\ byte <= 122)

\* C1: decoding the serialized bytes of a chunk built by Chunk::new succeeds
\* and gives a chunk with the same length, type bytes, payload and checksum.
C1_RoundTrip ==
  last = "decode" =>
    /\ decoded.kind = "Ok"
    /\ decoded.v.length = chunk.v.length
    /\ ChunkType_bytes(decoded.v.chunk_type) = ChunkType_bytes(chunk.v.chunk_type)
    /\ decoded.v.chunk_data = chunk.v.chunk_data
    /\ decoded.v.crc = chunk.v.crc

\* C2: decoding a buffer shorter than 12 bytes, or shorter than 12 + its
\* declared length, returns an error value; it does not panic.
C2_Truncation ==
  (decoded # None /\ Truncated(value.v)) => decoded.kind = "Err"

\* C3: for a buffer of at least 12 + declared-length bytes, decoding succeeds
\* iff the stored big-endian checksum equals CRC32(type bytes ++ payload), and
\* returns an error otherwise; a chunk's bytes with one bit of the checksum
\* field inverted do not decode.
C3_ChecksumGate ==
  /\ (decoded # None /\ ~ Truncated(value.v)) =>
       /\ decoded.kind \in {"Ok", "Err"}
       /\ decoded.kind = "Ok" <=>
            StoredCrcOf(value.v)
              = Checksum(VCat(Vec(TagOf(value.v)), PayloadOf(value.v)))
  /\ last = "decode_flipped" => decoded.kind = "Err"

C3_Witness ==
  /\ last = "decode_flipped"
  /\ ~ Truncated(value.v)
  /\ chunk.v.length = W(0, 1)
  /\ decoded.kind = "Err"

\* C4: the length of a chunk built by Chunk::new is the number of bytes of its
\* payload, never a wrapped value of it, and so is the length of a decoded
\* chunk.
C4_Length ==
  /\ chunk # None => AsUsize(chunk.v.length) = VLen(chunk.v.chunk_data)
  /\ decoded.kind = "Ok" => AsUsize(decoded.v.length) = VLen(decoded.v.chunk_data)

\* C5: from_str succeeds iff the string is 4 bytes long and all of them are
\* ASCII letters; another length gives the wrong-length error whatever the
\* characters, and 4 bytes with a non-letter give the non-alphabetic error.
C5_TagValidation ==
  (input # None /\ input.from = "str") =>
    LET s == input.s
        letters == \A i \in 1 .. Len(s) : Letter(s[i])
    IN /\ ct.kind = "Ok" <=> (Len(s) = 4 /\ letters)
       /\ Len(s) # 4 => ct = Err("incorrect number of bytes in from_str parameter")
       /\ (Len(s) = 4 /\ ~ letters) => ct = Err("non-alphabetic character")

C5_Witness ==
  /\ input # None /\ input.from = "str"
  /\ Len(input.s) = 4
  /\ \E i \in 1 .. 4 : Letter(input.s[i])
  /\ ct = Err("non-alphabetic character")

\* C6: as_bytes() of a chunk has 12 + length() bytes: length() big-endian, the
\* 4 type bytes as bytes() gives them, the payload, crc() big-endian.
C6_WireLayout ==
  bytes # None =>
    /\ VLen(bytes.v) = UAdd(HeaderAndCrc, AsUsize(chunk.v.length))
    /\ bytes.v = VCat(VCat(VCat(Vec(U32ToBeBytes(chunk.v.length)),
                                Vec(ChunkType_bytes(chunk.v.chunk_type))),
                           chunk.v.chunk_data),
                      Vec(U32ToBeBytes(chunk.v.crc)))

\* C7: is_critical, is_public and is_reserved_bit_valid hold iff bit 0x20 of
\* byte 0, 1, 2 is clear, is_safe_to_copy iff bit 0x20 of byte 3 is set, and
\* is_valid equals is_reserved_bit_valid, also for tags built from raw bytes.
C7_BitFlags ==
  flags # None =>
    LET b == input.s
    IN /\ flags.is_critical <=> ~ Bit0x20(b[1])
       /\ flags.is_public <=> ~ Bit0x20(b[2])
       /\ flags.is_reserved_bit_valid <=> ~ Bit0x20(b[3])
       /\ flags.is_safe_to_copy <=> Bit0x20(b[4])
       /\ flags.is_valid = flags.is_reserved_bit_valid

C7_Witness ==
  /\ flags # None
  /\ input.from = "bytes"
  /\ ~ ChunkType_from_str(input.s).kind = "Ok"
  /\ flags.is_critical /\ ~ flags.is_public
  /\ ~ flags.is_valid /\ ~ flags.is_safe_to_copy

\* C8: a tag built from a 4-byte array gives that array back from bytes(); a
\* tag built from text equals the tag built from the text's bytes; a decoded
\* chunk's tag gives back bytes 4..8 of the buffer; two tags are equal iff
\* their byte arrays are.
C8_TagBytes ==
  /\ (input # None /\ input.from = "bytes") =>
       ct.kind = "Ok" /\ ChunkType_bytes(ct.v) = input.s
  /\ (input # None /\ input.from = "str" /\ ct.kind = "Ok") =>
       ct = ChunkType_try_from(input.s) /\ ChunkType_bytes(ct.v) = input.s
  /\ eq # None => (eq.equal <=> input.s = eq.other)
  /\ decoded.kind = "Ok" => ChunkType_bytes(decoded.v.chunk_type) = TagOf(value.v)

C8_Witness ==
  /\ eq # None
  /\ input.from = "str"
  /\ eq.equal
  /\ input.s = RuSt

\* C9 as claimed: the chunk built from the tag "RuSt" and the 42-character
\* message has checksum 2882656334 (0xABD1D84E) and length 44.
C9_KnownVector44 ==
  (/\ chunk # None
   /\ ChunkType_bytes(chunk.v.chunk_type) = RuSt
   /\ chunk.v.chunk_data = Vec(SecretMessage)) =>
     chunk.v.crc = W(43985, 55374) /\ chunk.v.length = W(0, 44)

\* C9 as amended: the chunk built from the tag "RuSt" and the message has
\* checksum 2882656334 (0xABD1D84E) and length 42.
C9_KnownVector ==
  (/\ chunk # None
   /\ ChunkType_bytes(chunk.v.chunk_type) = RuSt
   /\ chunk.v.chunk_data = Vec(SecretMessage)) =>
     chunk.v.crc = W(43985, 55374) /\ chunk.v.length = W(0, 42)

C9_Witness ==
  /\ last = "new"
  /\ ChunkType_bytes(chunk.v.chunk_type) = RuSt
  /\ chunk.v.chunk_data = Vec(SecretMessage)

\* C10: for a buffer b of at least 12 + L bytes, L its declared length,
\* decoding b gives what decoding b[0..12+L] gives; the payload of the decoded
\* chunk is b[8..8+L] and its checksum is the one stored at b[8+L..12+L].
C10_PrefixOnly ==
  (decoded # None /\ ~ Truncated(value.v)) =>
    /\ decoded = Chunk_try_from(VTake(value.v, UAdd(HeaderAndCrc, Declared(value.v))))
    /\ decoded.kind = "Ok" =>
         /\ decoded.v.chunk_data = PayloadOf(value.v)
         /\ decoded.v.crc = StoredCrcOf(value.v)

C10_Witness ==
  /\ last = "decode_extended"
  /\ decoded.kind = "Ok"
  /\ decoded.v.length = W(0, 1)
  /\ ULt(UAdd(HeaderAndCrc, Declared(value.v)), VLen(value.v))

====
